---- MODULE Spec2Model ----
(***************************************************************************)
(* GeoTrace pipeline: the clustering stage (member2/cluster.py) and the    *)
(* movement stage (member3/member3_movement.py) over the JSON files they   *)
(* pass to each other.                                                     *)
(*                                                                         *)
(* Units.  Every modelled observation with a longitude lies on one         *)
(* meridian, where the haversine formula reduces to EARTH_RADIUS * |dlat|. *)
(* A latitude is therefore kept as metres of meridian arc from the         *)
(* equator, and a distance is the absolute difference of two latitudes,    *)
(* in metres.  An optional value (a JSON null, a Python None) is the empty *)
(* sequence, a present value v is <<v>>.  A speed is kept exactly, as the   *)
(* fraction num/den of km/h; a reported speed_kmh, rounded to two          *)
(* decimals by the code, is kept in hundredths of km/h.                    *)
(***************************************************************************)
EXTENDS Integers, Sequences, FiniteSets

VARIABLES
    output_data,      \* member1/output_data.json: [exists, content]
    points_file,      \* member2/points_with_clusters.json: [exists, content]
    clusters_file,    \* member2/clusters.json: [exists, content]
    m2_exit,          \* how the run of cluster.py ended
    m3_exit,          \* how the run of member3_movement.py ended
    parsed_points,    \* compute_point_to_point_movements: the sorted points
    segments,         \* compute_point_to_point_movements: the segments
    intelligence,     \* member3/intelligence.json: [exists, content]
    m4_exit,          \* how the run of member4_dashboard.py ended
    exposure,         \* compute_exposure: the score and its label
    first_run,        \* the results of the first of two runs on one batch
    images,           \* member1/images: the files of the upload folder
    db,               \* member1/metadata.db: [file, table, rows]
    dashboard,        \* member4/dashboard.html: [exists, points, exposure, intel]
    pc,               \* track(): where each request is in the handler
    upload,           \* request.files.getlist("images") of each request
    response,         \* what track() returned to each request
    started,          \* the stages each request has started, in order
    extracted,        \* the output_data.json each request's handler read
    rendered          \* what each request's dashboard was built from

\* The state of the web front end (app.py) and of the extraction stage.
web_vars ==
    <<images, db, dashboard, pc, upload, response, started, extracted, rendered>>

vars == <<output_data, points_file, clusters_file, m2_exit, m3_exit,
          parsed_points, segments, intelligence, m4_exit, exposure,
          first_run, web_vars>>

-----------------------------------------------------------------------------
(* Program constants *)

EPS_M == 500            \* EPS_KM = 0.5, in metres
MIN_SAMPLES == 3
EARTH_RADIUS == 6371
SPEED_STATIONARY == 1   \* km/h
SPEED_WALKING == 6      \* km/h
SPEED_DRIVING == 120    \* km/h
VISIT_GAP == 360000     \* 3600 s, in hundredths of a second

(* Bounds of the model *)

MaxObsSpatial == 6      \* longest batch of the spatial family
MaxObsTemporal == 4     \* longest batch of the temporal family
MaxObsDefective == 4    \* longest batch of the defective family
MaxObsSpeed == 2        \* longest batch of the speed family
MaxObsDwell == 5        \* longest batch of the dwell family
MaxObsCorridor == 7     \* longest batch of the corridor family
MaxObsHours == 3        \* longest batch of the hours family
MaxStops == 4           \* most stops of a tour
MaxObsGiven == 3        \* longest batch of the given family
MaxObsSpan == 4         \* longest batch of the span family
MaxPhotos == 2          \* most photos of a request handled alone
MaxPhotosOverlap == 1   \* most photos of a request that overlaps another

-----------------------------------------------------------------------------
(* Optional values *)

None == << >>
Some(v) == <<v>>
IsNone(o) == o = << >>
Val(o) == o[1]

Abs(x) == IF x < 0 THEN -x ELSE x

RECURSIVE SumSeq(_)
SumSeq(s) == IF s = << >> THEN 0 ELSE s[1] + SumSeq(Tail(s))

MaxSet(S) ==
    IF S = {} THEN 0
    ELSE LET x == CHOOSE y \in S : \A z \in S : z <= y IN x

-----------------------------------------------------------------------------
(* The input batches *)

\* A quarter meridian, the arc of 90 degrees of latitude, in metres
\* (EARTH_RADIUS km * pi/2, with pi/2 taken as 1.571).
QuarterMeridianM == EARTH_RADIUS * 1571

\* A latitude beyond +90 degrees (about 90.9).
OutOfRangeLat == QuarterMeridianM + 100000

NoTimestamp == [fmt |-> "null", t |-> 0, tz |-> FALSE]

\* Raw timestamp texts: the format the text is written in, the instant it
\* names (hundredths of a second, UTC) and whether it carries a UTC offset.
Timestamp(fmt, t) ==
    [fmt |-> fmt, t |-> t, tz |-> fmt \in {"exif_tz", "iso_tz"}]

\* Spatial family: four places on the meridian, three of them 500 m apart
\* and one 1000 m further; no timestamps.
SpatialObs ==
    {[lat |-> Some(p), lon |-> Some(0), timestamp |-> NoTimestamp] :
        p \in {0, 500, 1000, 2000}}

\* Temporal family: one place, every kind of timestamp text.
TemporalObs ==
    {[lat |-> Some(0), lon |-> Some(0), timestamp |-> ts] :
        ts \in {NoTimestamp, Timestamp("garbage", 0), Timestamp("iso", 1000),
                Timestamp("iso", 2000), Timestamp("iso_tz", 1000)}}

\* Defective family: a sound observation, a null latitude, a null
\* longitude, both null, and a latitude out of range.
DefectiveObs ==
    {[lat |-> la, lon |-> lo, timestamp |-> NoTimestamp] :
        la \in {None, Some(0)}, lo \in {None, Some(0)}}
    \cup {[lat |-> Some(OutOfRangeLat), lon |-> Some(0),
           timestamp |-> NoTimestamp]}

\* Speed family: places, and instants an hour and 0.04 s apart, whose pairs
\* give speeds below, on, just under and above each threshold (997 m in an
\* hour is 0.997 km/h).
SpeedObs ==
    {[lat |-> Some(p), lon |-> Some(0), timestamp |-> ts] :
        p \in {0, 997, 1000, 6000, 120000},
        ts \in {Timestamp("iso", 0), Timestamp("iso_us", 4),
                Timestamp("iso", 360000), NoTimestamp}}

\* Dwell family: one place seen at 0:00:00, at 1:00:00 (a gap of exactly
\* 3600 s), at 2:00:00.01 (a gap of 3600.01 s) or without a timestamp, and
\* a second place seen at 0:00:00.
DwellObs ==
    {[lat |-> Some(o[1]), lon |-> Some(0), timestamp |-> o[2]] :
        o \in {<<0, Timestamp("iso", 0)>>, <<0, Timestamp("iso", 360000)>>,
               <<0, Timestamp("iso_us", 720001)>>, <<0, NoTimestamp>>,
               <<2000, Timestamp("iso", 0)>>}}

\* Corridor family: three places more than eps apart, no timestamps, so
\* that the segments follow the input order.
CorridorObs ==
    {[lat |-> Some(p), lon |-> Some(0), timestamp |-> NoTimestamp] :
        p \in {0, 1000, 2000}}

\* Hours family: one place seen at the first and the last second of every
\* time-of-day bucket, at 03:00:00 of the next day, with a text that is no
\* timestamp, or without a timestamp.
HoursObs ==
    {[lat |-> Some(0), lon |-> Some(0), timestamp |-> Timestamp("iso", t)] :
        t \in {5 * 360000 - 100, 5 * 360000, 12 * 360000 - 100, 12 * 360000,
               17 * 360000 - 100, 17 * 360000, 21 * 360000 - 100, 21 * 360000,
               27 * 360000}}
    \cup {[lat |-> Some(0), lon |-> Some(0), timestamp |-> ts] :
            ts \in {Timestamp("garbage", 0), NoTimestamp}}

\* Tour family: a sequence of stops, each either MIN_SAMPLES photographs
\* at one of four places more than eps apart or a single photograph, at
\* the first place or at a fifth one; the photographs are a minute apart.
TourStops ==
    {[place |-> p, photos |-> MIN_SAMPLES] : p \in {0, 1000, 3000, 6000}}
    \cup {[place |-> p, photos |-> 1] : p \in {0, 10000}}

RECURSIVE TourPlaces(_)
TourPlaces(stops) ==
    IF stops = << >> THEN << >>
    ELSE [k \in 1..stops[1].photos |-> stops[1].place] \o TourPlaces(Tail(stops))

TourObs(stops) ==
    LET places == TourPlaces(stops)
    IN [k \in 1..Len(places) |->
            [lat |-> Some(places[k]), lon |-> Some(0),
             timestamp |-> Timestamp("iso", 6000 * k)]]

\* Span family: one place seen at 0:00:00, 0.06 s later, at 1:00:00.04
\* (3599.98 s after the second instant, 3600.04 s after the first), at
\* 2:00:00.10, or without a timestamp.
SpanObs ==
    {[lat |-> Some(0), lon |-> Some(0), timestamp |-> ts] :
        ts \in {Timestamp("iso", 0), Timestamp("iso_us", 6),
                Timestamp("iso_us", 360004), Timestamp("iso_us", 720010),
                NoTimestamp}}

\* Given family: two places more than eps apart, two instants a minute
\* apart.
GivenObs ==
    {[lat |-> Some(o[1]), lon |-> Some(0), timestamp |-> Timestamp("iso", o[2])] :
        o \in {<<0, 0>>, <<0, 6000>>, <<1000, 0>>, <<1000, 6000>>}}

SeqsUpTo(S, n) == UNION {[1..k -> S] : k \in 0..n}

\* image_id is the primary key of member1's table: unique within a batch.
WithIds(b) ==
    [i \in 1..Len(b) |->
        [image_id |-> i, lat |-> b[i].lat, lon |-> b[i].lon,
         timestamp |-> b[i].timestamp]]

Batches ==
    {WithIds(b) : b \in SeqsUpTo(SpatialObs, MaxObsSpatial)
                        \cup SeqsUpTo(TemporalObs, MaxObsTemporal)
                        \cup SeqsUpTo(DefectiveObs, MaxObsDefective)}

SpeedBatches == {WithIds(b) : b \in SeqsUpTo(SpeedObs, MaxObsSpeed)}

DwellBatches == {WithIds(b) : b \in SeqsUpTo(DwellObs, MaxObsDwell)}

HoursBatches == {WithIds(b) : b \in SeqsUpTo(HoursObs, MaxObsHours)}

TourBatches == {WithIds(TourObs(stops)) : stops \in SeqsUpTo(TourStops, MaxStops)}

SpanBatches == {WithIds(b) : b \in SeqsUpTo(SpanObs, MaxObsSpan)}

\* Batches run twice: those of the given family, and a single observation
\* of the defective family.
TwiceBatches ==
    {WithIds(b) : b \in SeqsUpTo(GivenObs, MaxObsGiven)
                        \cup SeqsUpTo(DefectiveObs, 1)}

GivenBatches == {WithIds(b) : b \in SeqsUpTo(GivenObs, MaxObsGiven)}

CorridorBatches == {WithIds(b) : b \in SeqsUpTo(CorridorObs, MaxObsCorridor)}

-----------------------------------------------------------------------------
(* member2/cluster.py *)

\* haversine on one meridian: EARTH_RADIUS * |dlat|, here in metres.
haversine(lat1, lat2) == Abs(lat2 - lat1)

\* Mutant: the filter tests the latitude alone.
IsValidPoint_LatOnly(point) == ~IsNone(point.lat)

\* for point in data: if lat is not None and lon is not None
IsValidPoint(point) == ~IsNone(point.lat) /\ ~IsNone(point.lon)

valid_points(data) == SelectSeq(data, IsValidPoint)

coords(data) ==
    LET vp == valid_points(data)
    IN [i \in 1..Len(vp) |-> Val(vp[i].lat)]

\* Mutant: a point exactly eps away is not a neighbour.
WithinEps_Strict(d) == d < EPS_M

\* DBSCAN's radius query: the points within eps of point i, itself included.
WithinEps(d) == d <= EPS_M

Neighborhood(cs, i) == {j \in 1..Len(cs) : WithinEps(haversine(cs[i], cs[j]))}

\* Mutant: two points within eps of each other are already core.
IsCore_Pair(cs, i) == Cardinality(Neighborhood(cs, i)) >= MIN_SAMPLES - 1

IsCore(cs, i) == Cardinality(Neighborhood(cs, i)) >= MIN_SAMPLES

\* The neighbours of i in ascending order (the stack is a sequence).
RECURSIVE SetToSeq(_)
SetToSeq(S) ==
    IF S = {} THEN << >>
    ELSE LET x == CHOOSE y \in S : \A z \in S : y <= z
         IN <<x>> \o SetToSeq(S \ {x})

\* Mutant: only core neighbours are visited, border points stay unlabelled.
PushedNeighbours_CoreOnly(cs, lab, i) ==
    SelectSeq(SetToSeq(Neighborhood(cs, i)),
              LAMBDA v : lab[v] = -1 /\ IsCore(cs, v))

\* The neighbours of a core point that are pushed for a visit.
PushedNeighbours(cs, lab, i) ==
    SelectSeq(SetToSeq(Neighborhood(cs, i)), LAMBDA v : lab[v] = -1)

\* dbscan_inner's depth-first search from i: label i if unlabelled, push
\* the unlabelled neighbours of a core point, pop the next point.
RECURSIVE Expand(_, _, _, _, _)
Expand(cs, lab, stack, i, label_num) ==
    LET fresh == lab[i] = -1
        lab1 == IF fresh THEN [lab EXCEPT ![i] = label_num] ELSE lab
        stack1 == IF fresh /\ IsCore(cs, i)
                  THEN stack \o PushedNeighbours(cs, lab1, i)
                  ELSE stack
    IN IF stack1 = << >> THEN lab1
       ELSE Expand(cs, lab1, SubSeq(stack1, 1, Len(stack1) - 1),
                   stack1[Len(stack1)], label_num)

\* dbscan_inner's outer loop: every unlabelled core point, in input order,
\* starts the next cluster.
RECURSIVE Scan(_, _, _, _)
Scan(cs, lab, i, label_num) ==
    IF i > Len(cs) THEN lab
    ELSE IF lab[i] # -1 \/ ~IsCore(cs, i) THEN Scan(cs, lab, i + 1, label_num)
    ELSE Scan(cs, Expand(cs, lab, << >>, i, label_num), i + 1, label_num + 1)

\* labels = db.fit_predict(coords_rad)
fit_predict(cs) == Scan(cs, [i \in 1..Len(cs) |-> -1], 1, 0)

\* valid_points[i]["cluster_id"] = int(label)
AttachClusterIds(vp, labels) ==
    [i \in 1..Len(vp) |->
        [image_id |-> vp[i].image_id, lat |-> vp[i].lat, lon |-> vp[i].lon,
         timestamp |-> vp[i].timestamp, cluster_id |-> labels[i]]]

\* Mutant: noise points are not skipped.
IsNoise_Never(cid) == FALSE

\* if cid == -1: continue
IsNoise(cid) == cid = -1

\* The dict clusters as the sequence of its items, in insertion order:
\* each item is a cluster id and the latitudes appended to it.
HasKey(clusters, cid) == \E k \in 1..Len(clusters) : clusters[k].cid = cid

AppendPoint(clusters, cid, lat) ==
    IF HasKey(clusters, cid)
    THEN [k \in 1..Len(clusters) |->
            IF clusters[k].cid = cid
            THEN [cid |-> cid, points |-> Append(clusters[k].points, lat)]
            ELSE clusters[k]]
    ELSE Append(clusters, [cid |-> cid, points |-> <<lat>>])

\* for point in valid_points: ... clusters[cid].append((lat, lon))
RECURSIVE BuildClusters(_, _)
BuildClusters(pts, clusters) ==
    IF pts = << >> THEN clusters
    ELSE IF IsNoise(pts[1].cluster_id)
         THEN BuildClusters(Tail(pts), clusters)
         ELSE BuildClusters(Tail(pts),
                  AppendPoint(clusters, pts[1].cluster_id, Val(pts[1].lat)))

\* Mutant: visits counts the distinct coordinates.
Visits_Distinct(points) == Cardinality({points[k] : k \in 1..Len(points)})

\* "visits": len(points)
Visits(points) == Len(points)

\* One entry of cluster_summary; the center is the mean latitude, to the
\* metre.
ClusterRecord(item) ==
    [cluster_id |-> item.cid,
     center |-> SumSeq(item.points) \div Len(item.points),
     visits |-> Visits(item.points)]

cluster_summary(pts) ==
    LET clusters == BuildClusters(pts, << >>)
    IN [k \in 1..Len(clusters) |-> ClusterRecord(clusters[k])]

\* max_distance over the pairs of cluster centers, rounded to 0.01 km.
movement_radius(summary) ==
    LET d == MaxSet({haversine(summary[i].center, summary[j].center) :
                        i, j \in 1..Len(summary)})
    IN ((d + 5) \div 10) * 10

\* list(labels).count(-1)
NoiseCount(labels) == Cardinality({i \in 1..Len(labels) : labels[i] = -1})

final_clusters(pts, labels) ==
    LET summary == cluster_summary(pts)
    IN [clusters |-> summary,
        noise_points |-> NoiseCount(labels),
        movement_radius_km |-> movement_radius(summary)]

NoClustersContent ==
    [clusters |-> << >>, noise_points |-> 0, movement_radius_km |-> 0]

\* What a complete run writes: points_with_clusters.json and clusters.json.
ClusterOutputs(data) ==
    LET vp == valid_points(data)
        labels == fit_predict(coords(data))
        pts == AttachClusterIds(vp, labels)
    IN [points |-> pts, clusters |-> final_clusters(pts, labels)]

\* Mutant: the clustered observations are appended to those that
\* points_with_clusters.json already holds.
RunCluster_Appends ==
    /\ output_data.exists
    /\ m2_exit = "not_run"
    /\ LET data == output_data.content
       IN IF data = << >>
          THEN /\ m2_exit' = "exit_empty_input"
               /\ UNCHANGED <<points_file, clusters_file>>
          ELSE IF Len(valid_points(data)) = 0
          THEN /\ m2_exit' = "exit_no_valid"
               /\ UNCHANGED <<points_file, clusters_file>>
          ELSE LET out == ClusterOutputs(data)
               IN /\ points_file' =
                        [exists |-> TRUE,
                         content |-> points_file.content \o out.points]
                  /\ clusters_file' = [exists |-> TRUE, content |-> out.clusters]
                  /\ m2_exit' = "complete"
    /\ UNCHANGED <<output_data, m3_exit, parsed_points, segments,
                   intelligence, m4_exit, exposure>>
    /\ UNCHANGED <<first_run, web_vars>>

\* One run of the script: both output files, or neither after exit().
RunCluster ==
    /\ output_data.exists
    /\ m2_exit = "not_run"
    /\ LET data == output_data.content
       IN IF data = << >>
          THEN /\ m2_exit' = "exit_empty_input"
               /\ UNCHANGED <<points_file, clusters_file>>
          ELSE IF Len(valid_points(data)) = 0
          THEN /\ m2_exit' = "exit_no_valid"
               /\ UNCHANGED <<points_file, clusters_file>>
          ELSE LET out == ClusterOutputs(data)
               IN /\ points_file' = [exists |-> TRUE, content |-> out.points]
                  /\ clusters_file' = [exists |-> TRUE, content |-> out.clusters]
                  /\ m2_exit' = "complete"
    /\ UNCHANGED <<output_data, m3_exit, parsed_points, segments,
                   intelligence, m4_exit, exposure>>
    /\ UNCHANGED <<first_run, web_vars>>

-----------------------------------------------------------------------------
(* member3/member3_movement.py *)

\* The formats parse_timestamp tries, in order.
formats == <<"exif", "iso", "db", "iso_us", "db_us", "exif_tz", "iso_tz">>

\* datetime.strptime(ts_str, fmt) succeeds: the text is written in fmt
\* (a null raises TypeError, any other text ValueError).
Strptime(ts_str, fmt) == ts_str.fmt = fmt

\* The first successful parse, or None: a datetime is its instant and
\* whether it is offset-aware.
RECURSIVE TryFormats(_, _)
TryFormats(ts_str, k) ==
    IF k > Len(formats) THEN None
    ELSE IF Strptime(ts_str, formats[k])
         THEN Some([t |-> ts_str.t, aware |-> ts_str.tz])
         ELSE TryFormats(ts_str, k + 1)

parse_timestamp(ts_str) == TryFormats(ts_str, 1)

\* p.get("timestamp") or ... or "unknown"
Unknown == [fmt |-> "unknown", t |-> 0, tz |-> FALSE]

TimestampStr(p) == IF p.timestamp.fmt = "null" THEN Unknown ELSE p.timestamp

\* The records built before the sort; filename is image_id (load_inputs).
ParsePoints(points) ==
    [i \in 1..Len(points) |->
        [lat |-> points[i].lat,
         lon |-> points[i].lon,
         timestamp |-> parse_timestamp(points[i].timestamp),
         timestamp_str |-> TimestampStr(points[i]),
         cluster_id |-> points[i].cluster_id,
         filename |-> points[i].image_id]]

\* Mutant: a missing timestamp sorts as the earliest instant.
SortKey_NoneFirst(x) ==
    IF IsNone(x.timestamp) THEN [max |-> FALSE, t |-> -1, aware |-> FALSE]
    ELSE [max |-> FALSE, t |-> Val(x.timestamp).t,
          aware |-> Val(x.timestamp).aware]

\* key=lambda x: x["timestamp"] or datetime.max
SortKey(x) ==
    IF IsNone(x.timestamp) THEN [max |-> TRUE, t |-> 0, aware |-> FALSE]
    ELSE [max |-> FALSE, t |-> Val(x.timestamp).t,
          aware |-> Val(x.timestamp).aware]

\* key a < key b, for two keys that can be compared.
KeyLess(a, b) == ~a.max /\ (b.max \/ a.t < b.t)

\* Comparing an offset-aware with an offset-naive datetime raises TypeError;
\* datetime.max is naive.  A sort compares some aware key with some naive
\* key as soon as both kinds are present.
SortRaises(pp) ==
    \E i, j \in 1..Len(pp) : SortKey(pp[i]).aware /\ ~SortKey(pp[j]).aware

\* list.sort is stable: x goes after every element whose key is not
\* greater than its own.
InsertPos(sorted, x) ==
    Cardinality({k \in 1..Len(sorted) : ~KeyLess(SortKey(x), SortKey(sorted[k]))})

Insert(sorted, x) ==
    LET n == InsertPos(sorted, x)
    IN SubSeq(sorted, 1, n) \o <<x>> \o SubSeq(sorted, n + 1, Len(sorted))

RECURSIVE SortPoints(_, _)
SortPoints(sorted, rest) ==
    IF rest = << >> THEN sorted
    ELSE SortPoints(Insert(sorted, rest[1]), Tail(rest))

EndPoint(x) ==
    [lat |-> x.lat, lon |-> x.lon, timestamp |-> x.timestamp_str,
     filename |-> x.filename, cluster_id |-> x.cluster_id]

\* time_delta_seconds before rounding, in hundredths of a second: None
\* unless both timestamps were parsed.
TimeDelta(prev, curr) ==
    IF ~IsNone(prev.timestamp) /\ ~IsNone(curr.timestamp)
    THEN Some(Val(curr.timestamp).t - Val(prev.timestamp).t)
    ELSE None

\* speed_kmh = (dist_km / time_delta_seconds) * 3600, only for a positive
\* time delta: with metres and hundredths of a second, 360 * dist / delta.
Speed(dist, delta) ==
    IF ~IsNone(delta) /\ Val(delta) > 0
    THEN Some([num |-> 360 * dist, den |-> Val(delta)])
    ELSE None

\* round(num / den) for den > 0, a tie going to the even neighbour.
RoundDiv(num, den) ==
    LET q == num \div den
        r2 == 2 * (num % den)
    IN IF r2 > den \/ (r2 = den /\ q % 2 = 1) THEN q + 1 ELSE q

\* round(time_delta_seconds, 1), in tenths of a second.
RoundDelta(delta) ==
    IF IsNone(delta) THEN None ELSE Some(RoundDiv(Val(delta), 10))

\* round(speed_kmh, 2), in hundredths of km/h.
RoundSpeed(speed) ==
    IF IsNone(speed) THEN None
    ELSE LET num == Val(speed).num
             den == Val(speed).den
         IN Some(100 * (num \div den) + RoundDiv(100 * (num % den), den))

\* speed_kmh < threshold
SpeedBelow(speed, threshold) == speed.num < threshold * speed.den

classify_speed(speed_kmh) ==
    IF IsNone(speed_kmh) THEN "unknown"
    ELSE IF SpeedBelow(Val(speed_kmh), SPEED_STATIONARY) THEN "stationary"
    ELSE IF SpeedBelow(Val(speed_kmh), SPEED_WALKING) THEN "walking"
    ELSE IF SpeedBelow(Val(speed_kmh), SPEED_DRIVING) THEN "driving"
    ELSE "anomaly/flight"

Segment(prev, curr) ==
    LET dist_km == haversine(Val(prev.lat), Val(curr.lat))
        time_delta_seconds == TimeDelta(prev, curr)
        speed_kmh == Speed(dist_km, time_delta_seconds)
    IN [from_point |-> EndPoint(prev),
        to_point |-> EndPoint(curr),
        distance_km |-> dist_km,
        time_delta_seconds |-> RoundDelta(time_delta_seconds),
        speed_kmh |-> RoundSpeed(speed_kmh),
        behaviour |-> classify_speed(speed_kmh)]

\* Mutant: the loop stops one pair early.
SegmentIndices_Short(pp) == 1..(Len(pp) - 2)

\* for i in range(1, len(parsed_points))
SegmentIndices(pp) == 1..(Len(pp) - 1)

MakeSegments(pp) == [i \in SegmentIndices(pp) |-> Segment(pp[i], pp[i + 1])]

\* list.sort(key=...): the stable ascending order of s by the integer keys
\* key[i], equal keys keeping their order in s.
StableSort(s, key) ==
    LET n == Len(s)
        rank(i) == 1 + Cardinality({j \in 1..n :
                        key[j] < key[i] \/ (key[j] = key[i] /\ j < i)})
    IN [r \in 1..n |-> s[CHOOSE i \in 1..n : rank(i) = r]]

\* The elements of a sequence, each once, in order of first occurrence:
\* the key order of a dict, a defaultdict or a Counter.
FirstOccurrences(s) ==
    LET first == {i \in 1..Len(s) : \A j \in 1..(i - 1) : s[j] # s[i]}
        sel(i) == i \in first
        idx == SelectSeq([i \in 1..Len(s) |-> i], sel)
    IN [k \in 1..Len(idx) |-> s[idx[k]]]

\* load_inputs: the clusters of clusters.json as flat records.
LoadClusters(clusters_raw) ==
    [k \in 1..Len(clusters_raw.clusters) |->
        [cluster_id |-> clusters_raw.clusters[k].cluster_id,
         centroid_lat |-> clusters_raw.clusters[k].center,
         point_count |-> clusters_raw.clusters[k].visits]]

\* if i >= j: continue
IsPair(i, j) == i < j

\* The pairs of positions of the double loop, in the order it meets them.
PairSeq(n) ==
    LET all == [k \in 1..(n * n) |-> <<((k - 1) \div n) + 1, ((k - 1) % n) + 1>>]
        kept(pr) == IsPair(pr[1], pr[2])
    IN SelectSeq(all, kept)

\* Mutant: the records stay in the order of the double loop.
DistanceKey_Unsorted(rec) == 0

\* cluster_distances.sort(key=lambda x: x["distance_km"])
DistanceKey(rec) == rec.distance_km

compute_cluster_distances(clusters) ==
    LET pairs == PairSeq(Len(clusters))
        cluster_distances ==
            [k \in 1..Len(pairs) |->
                LET c1 == clusters[pairs[k][1]]
                    c2 == clusters[pairs[k][2]]
                IN [cluster_a |-> c1.cluster_id,
                    cluster_b |-> c2.cluster_id,
                    distance_km |-> haversine(c1.centroid_lat, c2.centroid_lat)]]
    IN StableSort(cluster_distances,
                  [k \in 1..Len(cluster_distances) |->
                      DistanceKey(cluster_distances[k])])

\* Mutant: a noise observation with a timestamp contributes too.
Contributes_NoiseToo(p) == ~IsNone(p.timestamp)

\* if cid is not None and cid != -1 and p["timestamp"]
Contributes(p) == p.cluster_id # -1 /\ ~IsNone(p.timestamp)

\* cluster_times[cid], sorted: the instants of the contributing points of
\* one cluster.
ClusterTimes(pp, cid) ==
    LET of_cid(p) == Contributes(p) /\ p.cluster_id = cid
        mine == SelectSeq(pp, of_cid)
        timestamps == [k \in 1..Len(mine) |-> Val(mine[k].timestamp).t]
    IN StableSort(timestamps, timestamps)

\* Mutant: a gap equal to the threshold starts a new visit.
NewVisit_AtLeast(gap, threshold) == gap >= threshold

\* Mutant: the comparison is turned round.
NewVisit_Below(gap, threshold) == gap < threshold

\* Mutant: no gap starts a new visit.
NewVisit_Never(gap, threshold) == FALSE

\* if gap > 3600
NewVisit(gap, threshold) == gap > threshold

\* The loop over timestamps[1:], from position k on.
RECURSIVE DwellScan(_, _, _, _)
DwellScan(timestamps, k, threshold, st) ==
    IF k > Len(timestamps) THEN st
    ELSE LET ts == timestamps[k]
             gap == ts - st.last_ts
         IN DwellScan(timestamps, k + 1, threshold,
                IF NewVisit(gap, threshold)
                THEN [total_dwell |-> st.total_dwell
                                        + (st.last_ts - st.current_visit_start),
                      visit_count |-> st.visit_count + 1,
                      current_visit_start |-> ts,
                      last_ts |-> ts]
                ELSE [st EXCEPT !.last_ts = ts])

\* The dwell record of one cluster for a given visit-gap threshold; times
\* are in hundredths of a second, total_dwell_seconds in tenths.
DwellRecord(cid, timestamps, threshold) ==
    LET st == DwellScan(timestamps, 2, threshold,
                  [total_dwell |-> 0, visit_count |-> 1,
                   current_visit_start |-> timestamps[1],
                   last_ts |-> timestamps[1]])
        total_dwell == st.total_dwell + (st.last_ts - st.current_visit_start)
    IN [cluster_id |-> cid,
        total_dwell_seconds |-> RoundDiv(total_dwell, 10),
        visit_count |-> st.visit_count,
        point_count |-> Len(timestamps),
        first_seen |-> timestamps[1],
        last_seen |-> timestamps[Len(timestamps)]]

\* dwell_results, as the sequence of its values in key order.
analyse_dwell_times(pp) ==
    LET contributing == SelectSeq(pp, Contributes)
        cids == FirstOccurrences(
                    [k \in 1..Len(contributing) |-> contributing[k].cluster_id])
    IN [k \in 1..Len(cids) |->
            DwellRecord(cids[k], ClusterTimes(pp, cids[k]), VISIT_GAP)]

\* dt.hour, for an instant counted from a midnight in the zone the
\* timestamp text is written in.
Hour(dt) == (dt.t \div 360000) % 24

\* Mutant: noon is still morning.
time_of_day_bucket_NoonMorning(dt) ==
    IF 5 <= Hour(dt) /\ Hour(dt) <= 12 THEN "morning"
    ELSE IF 12 <= Hour(dt) /\ Hour(dt) < 17 THEN "afternoon"
    ELSE IF 17 <= Hour(dt) /\ Hour(dt) < 21 THEN "evening"
    ELSE "night"

time_of_day_bucket(dt) ==
    IF 5 <= Hour(dt) /\ Hour(dt) < 12 THEN "morning"
    ELSE IF 12 <= Hour(dt) /\ Hour(dt) < 17 THEN "afternoon"
    ELSE IF 17 <= Hour(dt) /\ Hour(dt) < 21 THEN "evening"
    ELSE "night"

BucketNames == {"morning", "afternoon", "evening", "night"}

\* The profile: per bucket its count and its percentage, in tenths of a
\* percent.
analyse_time_of_day(pp) ==
    LET stamped(p) == ~IsNone(p.timestamp)
        timed == SelectSeq(pp, stamped)
        total == Len(timed)
        count(b) == Cardinality({k \in 1..total :
                        time_of_day_bucket(Val(timed[k].timestamp)) = b})
    IN [b \in BucketNames |->
            [count |-> count(b),
             percentage |-> IF total > 0
                            THEN RoundDiv(1000 * count(b), total) ELSE 0]]

\* Only transitions between different, valid clusters count.
IsCorridor(seg) ==
    /\ seg.from_point.cluster_id # -1
    /\ seg.to_point.cluster_id # -1
    /\ seg.from_point.cluster_id # seg.to_point.cluster_id

CorridorKey(seg) == <<seg.from_point.cluster_id, seg.to_point.cluster_id>>

\* Mutant: the corridors stay in the order they were first met.
TripKey_Unsorted(count) == 0

\* Counter.most_common(): descending count, a tie keeping the first met
\* first.
TripKey(count) == -count

\* The corridor records; "a -> b" is the pair <<a, b>>, avg_distance_km is
\* in tenths of a metre.
analyse_movement_corridors(segs) ==
    LET counted == SelectSeq(segs, IsCorridor)
        keys == FirstOccurrences([k \in 1..Len(counted) |-> CorridorKey(counted[k])])
        distances(key) ==
            LET of_key(seg) == CorridorKey(seg) = key
                mine == SelectSeq(counted, of_key)
            IN [k \in 1..Len(mine) |-> mine[k].distance_km]
        record(key) ==
            LET d == distances(key)
            IN [corridor |-> key,
                trip_count |-> Len(d),
                avg_distance_km |-> RoundDiv(10 * SumSeq(d), Len(d)),
                min_distance_km |-> -MaxSet({-d[k] : k \in 1..Len(d)}),
                max_distance_km |-> MaxSet({d[k] : k \in 1..Len(d)})]
        unsorted == [k \in 1..Len(keys) |-> record(keys[k])]
    IN StableSort(unsorted,
                  [k \in 1..Len(unsorted) |-> TripKey(unsorted[k].trip_count)])

Behaviours == {"unknown", "stationary", "walking", "driving", "anomaly/flight"}

\* compute_summary_statistics: distances in metres, speeds in hundredths of
\* km/h, time_span_seconds in hundredths of a second; behaviour_breakdown
\* gives 0 to a behaviour that the Counter does not hold.
compute_summary_statistics(segs, pp, clusters) ==
    LET fast(s) == s.speed_kmh # None /\ Val(s.speed_kmh) > 0
        moving == SelectSeq(segs, fast)
        speeds == [k \in 1..Len(moving) |-> Val(moving[k].speed_kmh)]
        stamped(p) == p.timestamp # None
        timed == SelectSeq(pp, stamped)
        valid_times == {Val(timed[k].timestamp).t : k \in 1..Len(timed)}
    IN [total_points |-> Len(pp),
        total_segments |-> Len(segs),
        total_clusters |-> Len(clusters),
        total_distance_km |-> SumSeq([k \in 1..Len(segs) |-> segs[k].distance_km]),
        avg_speed_kmh |-> IF speeds # << >>
                          THEN Some(RoundDiv(SumSeq(speeds), Len(speeds)))
                          ELSE None,
        max_speed_kmh |-> IF speeds # << >>
                          THEN Some(MaxSet({speeds[k] : k \in 1..Len(speeds)}))
                          ELSE None,
        min_speed_kmh |-> IF speeds # << >>
                          THEN Some(-MaxSet({-speeds[k] : k \in 1..Len(speeds)}))
                          ELSE None,
        time_span_seconds |-> IF Len(timed) >= 2
                              THEN Some(MaxSet(valid_times)
                                          + MaxSet({-t : t \in valid_times}))
                              ELSE None,
        behaviour_breakdown |->
            [b \in Behaviours |->
                Cardinality({k \in 1..Len(segs) : segs[k].behaviour = b})]]

\* The analyses of run_pipeline that follow the segments.
Analyses(clusters, pp, segs) ==
    [summary |-> compute_summary_statistics(segs, pp, clusters),
     cluster_distances |-> compute_cluster_distances(clusters),
     dwell_times |-> analyse_dwell_times(pp),
     time_of_day_profile |-> analyse_time_of_day(pp),
     movement_corridors |-> analyse_movement_corridors(segs)]

NoAnalyses ==
    [summary |-> compute_summary_statistics(<< >>, << >>, << >>),
     cluster_distances |-> << >>, dwell_times |-> << >>,
     time_of_day_profile |-> [b \in BucketNames |-> [count |-> 0, percentage |-> 0]],
     movement_corridors |-> << >>]

\* One run of run_pipeline: load_inputs, compute_point_to_point_movements,
\* the analyses, and the write of intelligence.json.
RunMovement ==
    /\ m2_exit # "not_run"
    /\ m3_exit = "not_run"
    /\ IF ~clusters_file.exists \/ ~points_file.exists
       THEN /\ m3_exit' = "exit_missing_input"
            /\ UNCHANGED <<parsed_points, segments, intelligence>>
       ELSE LET pp == ParsePoints(points_file.content)
            IN IF SortRaises(pp)
               THEN /\ m3_exit' = "raised"
                    /\ UNCHANGED <<parsed_points, segments, intelligence>>
               ELSE /\ parsed_points' = SortPoints(<< >>, pp)
                    /\ segments' = MakeSegments(parsed_points')
                    /\ intelligence' =
                          [exists |-> TRUE,
                           content |-> Analyses(LoadClusters(clusters_file.content),
                                                parsed_points', segments')]
                    /\ m3_exit' = "complete"
    /\ UNCHANGED <<output_data, points_file, clusters_file, m2_exit,
                   m4_exit, exposure>>
    /\ UNCHANGED <<first_run, web_vars>>

-----------------------------------------------------------------------------
(* member4/member4_dashboard.py *)

\* load_points: the points of member2, else those of member1 as noise;
\* found is FALSE when neither file exists (FileNotFoundError).
load_points ==
    IF points_file.exists
    THEN [found |-> TRUE, points |-> points_file.content]
    ELSE IF output_data.exists
    THEN [found |-> TRUE,
          points |-> [i \in 1..Len(output_data.content) |->
                        [image_id |-> output_data.content[i].image_id,
                         lat |-> output_data.content[i].lat,
                         lon |-> output_data.content[i].lon,
                         timestamp |-> output_data.content[i].timestamp,
                         cluster_id |-> -1]]]
    ELSE [found |-> FALSE, points |-> << >>]

\* sorted(points, key=lambda x: x["timestamp"]) raises TypeError: a null
\* timestamp is compared as soon as there are two points.
SortedRaises(points) ==
    /\ Len(points) >= 2
    /\ \E i \in 1..Len(points) : points[i].timestamp.fmt = "null"

\* datetime.fromisoformat(text) succeeds.
FromIsoFormat(ts) == ts.fmt \in {"iso", "db", "iso_us", "db_us", "iso_tz"}

\* build_summary raises: a timestamp that fromisoformat rejects (TypeError
\* for a null, ValueError for a text), or sorted(timestamps) over aware
\* and naive datetimes.
BuildSummaryRaises(points) ==
    /\ points # << >>
    /\ \/ \E i \in 1..Len(points) : ~FromIsoFormat(points[i].timestamp)
       \/ \E i, j \in 1..Len(points) :
             points[i].timestamp.tz # points[j].timestamp.tz

\* The fields of the summary that compute_exposure reads or that count the
\* points.
build_summary(points) ==
    [total_locations |-> Len(points),
     anomalies_detected |->
        Cardinality({i \in 1..Len(points) : points[i].cluster_id = -1})]

\* Mutant: ten points are not yet many.
ManyPoints_Above(total) == total > 10

\* if total >= 10
ManyPoints(total) == total >= 10

\* Mutant: the bonus for two clusters is lost with a third.
ClusterBonus_OnlyTwo(unique_clusters) ==
    (IF unique_clusters = 2 THEN 2 ELSE 0)
        + (IF unique_clusters >= 3 THEN 1 ELSE 0)

\* +2 for two clusters, +1 more for three
ClusterBonus(unique_clusters) ==
    (IF unique_clusters >= 2 THEN 2 ELSE 0)
        + (IF unique_clusters >= 3 THEN 1 ELSE 0)

\* The score of compute_exposure from the three numbers it depends on.
Score(total, unique_clusters, anomalies) ==
    LET score == 3 + (IF ManyPoints(total) THEN 2 ELSE 0)
                   + ClusterBonus(unique_clusters)
                   + (IF anomalies = 0 THEN 1 ELSE 0)
        capped == IF score > 10 THEN 10 ELSE score
    IN IF capped < 0 THEN 0 ELSE capped

ExposureLabel(score) ==
    IF score >= 7 THEN "High" ELSE IF score >= 4 THEN "Medium" ELSE "Low"

\* Mutant: the guard for an empty list of points is missing.
compute_exposure_NoGuard(points, summary) ==
    LET cluster_ids == {points[i].cluster_id : i \in 1..Len(points)} \ {-1}
        score == Score(Len(points), Cardinality(cluster_ids),
                       summary.anomalies_detected)
    IN [score |-> score, label |-> ExposureLabel(score)]

compute_exposure(points, summary) ==
    IF points = << >> THEN [score |-> 0, label |-> "Low"]
    ELSE LET cluster_ids == {points[i].cluster_id : i \in 1..Len(points)} \ {-1}
             score == Score(Len(points), Cardinality(cluster_ids),
                            summary.anomalies_detected)
         IN [score |-> score, label |-> ExposureLabel(score)]

\* One run of main, up to the exposure the dashboard is rendered from.
RunDashboard ==
    /\ m2_exit # "not_run"
    /\ m4_exit = "not_run"
    /\ LET loaded == load_points
           points == loaded.points
       IN IF ~loaded.found
          THEN m4_exit' = "raised_missing_input" /\ UNCHANGED exposure
          ELSE IF SortedRaises(points) \/ BuildSummaryRaises(points)
          THEN m4_exit' = "raised" /\ UNCHANGED exposure
          ELSE /\ exposure' = compute_exposure(points, build_summary(points))
               /\ m4_exit' = "complete"
    /\ UNCHANGED <<output_data, points_file, clusters_file, m2_exit, m3_exit,
                   parsed_points, segments, intelligence>>
    /\ UNCHANGED <<first_run, web_vars>>

-----------------------------------------------------------------------------
(* The producer of member1/output_data.json *)

WriteInput ==
    /\ ~output_data.exists
    /\ \E batch \in Batches :
          output_data' = [exists |-> TRUE, content |-> batch]
    /\ UNCHANGED <<points_file, clusters_file, m2_exit, m3_exit,
                   parsed_points, segments, intelligence, m4_exit, exposure>>
    /\ UNCHANGED <<first_run, web_vars>>

-----------------------------------------------------------------------------

NoExposure == [score |-> 0, label |-> "Low"]

\* The /track requests of the model.
Requests == {1, 2}

\* No first run has been recorded.
NoFirstRun == [done |-> FALSE]

\* member4/ holds no dashboard.html yet.
NoDashboard ==
    [exists |-> FALSE, points |-> << >>, exposure |-> NoExposure, intel |-> None]

\* A checkout of the repository has no member1/metadata.db.
NoDatabase == [file |-> FALSE, table |-> FALSE, rows |-> << >>]

\* The batch of an earlier run whose output files may still be in
\* member2/: three observations at one place.
PriorBatch ==
    WithIds([i \in 1..MIN_SAMPLES |->
        [lat |-> Some(0), lon |-> Some(0), timestamp |-> Timestamp("iso", 1000)]])

\* member2/ holds no output file yet, or those of the earlier run.
Init ==
    /\ output_data = [exists |-> FALSE, content |-> << >>]
    /\ \/ /\ points_file = [exists |-> FALSE, content |-> << >>]
          /\ clusters_file = [exists |-> FALSE, content |-> NoClustersContent]
       \/ /\ points_file =
                [exists |-> TRUE, content |-> ClusterOutputs(PriorBatch).points]
          /\ clusters_file =
                [exists |-> TRUE, content |-> ClusterOutputs(PriorBatch).clusters]
    /\ m2_exit = "not_run"
    /\ m3_exit = "not_run"
    /\ parsed_points = << >>
    /\ segments = << >>
    /\ intelligence = [exists |-> FALSE, content |-> NoAnalyses]
    /\ m4_exit = "not_run"
    /\ exposure = NoExposure
    /\ first_run = NoFirstRun
    /\ images = {}
    /\ db = NoDatabase
    /\ dashboard = NoDashboard
    /\ pc = [r \in Requests |-> "idle"]
    /\ upload = [r \in Requests |-> << >>]
    /\ response = [r \in Requests |-> "none"]
    /\ started = [r \in Requests |-> << >>]
    /\ extracted = [r \in Requests |-> None]
    /\ rendered = [r \in Requests |-> None]

Next == WriteInput \/ RunCluster \/ RunMovement

Spec == Init /\ [][Next]_vars

\* The pipeline fed with a batch of the speed family.
WriteInputSpeed ==
    /\ ~output_data.exists
    /\ \E batch \in SpeedBatches :
          output_data' = [exists |-> TRUE, content |-> batch]
    /\ UNCHANGED <<points_file, clusters_file, m2_exit, m3_exit,
                   parsed_points, segments, intelligence, m4_exit, exposure>>
    /\ UNCHANGED <<first_run, web_vars>>

NextSpeed == WriteInputSpeed \/ RunCluster \/ RunMovement

SpecSpeed == Init /\ [][NextSpeed]_vars

\* The pipeline fed with a batch of the dwell family.
WriteInputDwell ==
    /\ ~output_data.exists
    /\ \E batch \in DwellBatches :
          output_data' = [exists |-> TRUE, content |-> batch]
    /\ UNCHANGED <<points_file, clusters_file, m2_exit, m3_exit,
                   parsed_points, segments, intelligence, m4_exit, exposure>>
    /\ UNCHANGED <<first_run, web_vars>>

NextDwell == WriteInputDwell \/ RunCluster \/ RunMovement

SpecDwell == Init /\ [][NextDwell]_vars

\* The pipeline fed with a batch of the corridor family.
WriteInputCorridor ==
    /\ ~output_data.exists
    /\ \E batch \in CorridorBatches :
          output_data' = [exists |-> TRUE, content |-> batch]
    /\ UNCHANGED <<points_file, clusters_file, m2_exit, m3_exit,
                   parsed_points, segments, intelligence, m4_exit, exposure>>
    /\ UNCHANGED <<first_run, web_vars>>

NextCorridor == WriteInputCorridor \/ RunCluster \/ RunMovement

SpecCorridor == Init /\ [][NextCorridor]_vars

\* The pipeline fed with a batch of the hours family.
WriteInputHours ==
    /\ ~output_data.exists
    /\ \E batch \in HoursBatches :
          output_data' = [exists |-> TRUE, content |-> batch]
    /\ UNCHANGED <<points_file, clusters_file, m2_exit, m3_exit,
                   parsed_points, segments, intelligence, m4_exit, exposure>>
    /\ UNCHANGED <<first_run, web_vars>>

NextHours == WriteInputHours \/ RunCluster \/ RunMovement

SpecHours == Init /\ [][NextHours]_vars

\* The pipeline fed with a batch of the tour family, the dashboard
\* included.
WriteInputTour ==
    /\ ~output_data.exists
    /\ \E batch \in TourBatches :
          output_data' = [exists |-> TRUE, content |-> batch]
    /\ UNCHANGED <<points_file, clusters_file, m2_exit, m3_exit,
                   parsed_points, segments, intelligence, m4_exit, exposure>>
    /\ UNCHANGED <<first_run, web_vars>>

NextTour == WriteInputTour \/ RunCluster \/ RunMovement \/ RunDashboard

SpecTour == Init /\ [][NextTour]_vars

\* The pipeline fed with a batch of the span family.
WriteInputSpan ==
    /\ ~output_data.exists
    /\ \E batch \in SpanBatches :
          output_data' = [exists |-> TRUE, content |-> batch]
    /\ UNCHANGED <<points_file, clusters_file, m2_exit, m3_exit,
                   parsed_points, segments, intelligence, m4_exit, exposure>>
    /\ UNCHANGED <<first_run, web_vars>>

NextSpan == WriteInputSpan \/ RunCluster \/ RunMovement

SpecSpan == Init /\ [][NextSpan]_vars

\* The pipeline run twice on one batch of member1/output_data.json.
WriteInputTwice ==
    /\ ~output_data.exists
    /\ \E batch \in TwiceBatches :
          output_data' = [exists |-> TRUE, content |-> batch]
    /\ UNCHANGED <<points_file, clusters_file, m2_exit, m3_exit,
                   parsed_points, segments, intelligence, m4_exit, exposure>>
    /\ UNCHANGED <<first_run, web_vars>>

\* The two stages have ended and are started again: what they left in
\* their files stays, what they held in memory is gone.  The results of
\* the first run are kept for the comparison.
Rerun ==
    /\ ~first_run.done
    /\ m2_exit # "not_run"
    /\ m3_exit # "not_run"
    /\ first_run' = [done |-> TRUE,
                     m2_exit |-> m2_exit,
                     points_file |-> points_file,
                     clusters_file |-> clusters_file,
                     m3_exit |-> m3_exit,
                     segments |-> segments,
                     intelligence |-> intelligence]
    /\ m2_exit' = "not_run"
    /\ m3_exit' = "not_run"
    /\ parsed_points' = << >>
    /\ segments' = << >>
    /\ UNCHANGED <<output_data, points_file, clusters_file, intelligence,
                   m4_exit, exposure, web_vars>>

NextTwice == WriteInputTwice \/ RunCluster \/ RunMovement \/ Rerun

SpecTwice == Init /\ [][NextTwice]_vars

\* The movement stage and the dashboard run on files of member2/ that
\* are given to them: the files cluster.py writes for a batch of the given
\* family, or an empty list of clustered observations beside an empty
\* cluster list.
WriteClustered ==
    /\ ~points_file.exists
    /\ m2_exit = "not_run"
    /\ \E batch \in GivenBatches :
          IF batch = << >>
          THEN /\ points_file' = [exists |-> TRUE, content |-> << >>]
               /\ clusters_file' = [exists |-> TRUE, content |-> NoClustersContent]
          ELSE /\ points_file' =
                     [exists |-> TRUE, content |-> ClusterOutputs(batch).points]
               /\ clusters_file' =
                     [exists |-> TRUE, content |-> ClusterOutputs(batch).clusters]
    /\ m2_exit' = "given"
    /\ UNCHANGED <<output_data, m3_exit, parsed_points, segments,
                   intelligence, m4_exit, exposure>>
    /\ UNCHANGED <<first_run, web_vars>>

NextGiven == WriteClustered \/ RunMovement \/ RunDashboard

SpecGiven == Init /\ [][NextGiven]_vars

-----------------------------------------------------------------------------
(* app.py and member1: the /track handler and the extraction stage *)

\* What a photo carries: its GPS tags (the photos of request r are taken
\* at r km on the meridian) and its EXIF date: none, a date in the EXIF
\* format, or a text that is not one ("0000:00:00 00:00:00").
PhotoKinds ==
    [r \in Requests |->
        {[gps |-> k[1], timestamp |-> k[2]] :
            k \in {<<Some(r * 1000), NoTimestamp>>,
                   <<Some(r * 1000), Timestamp("exif", 6000)>>,
                   <<Some(r * 1000), Timestamp("garbage", 0)>>,
                   <<None, NoTimestamp>>}}]

\* The files of a form submission; the i-th is named img_i.jpg.
Named(b) ==
    [i \in 1..Len(b) |->
        [filename |-> i, gps |-> b[i].gps, timestamp |-> b[i].timestamp]]

Uploads ==
    [r \in Requests |-> {Named(b) : b \in SeqsUpTo(PhotoKinds[r], MaxPhotos)}]

OverlapUploads ==
    [r \in Requests |->
        {Named(b) : b \in SeqsUpTo(PhotoKinds[r], MaxPhotosOverlap)}]

\* extract_metadata: None without GPS tags and on any exception, among
\* them strptime on a date that is not in the EXIF format; a photo
\* without a date keeps a null timestamp, a dated one gets the ISO text.
extract_metadata(photo) ==
    IF IsNone(photo.gps) THEN None
    ELSE IF photo.timestamp.fmt = "null"
    THEN Some([lat |-> photo.gps, lon |-> Some(0), timestamp |-> NoTimestamp])
    ELSE IF Strptime(photo.timestamp, "exif")
    THEN Some([lat |-> photo.gps, lon |-> Some(0),
               timestamp |-> Timestamp("iso", photo.timestamp.t)])
    ELSE None

\* INSERT OR REPLACE: image_id is the primary key.
insert_image(rows, data) ==
    SelectSeq(rows, LAMBDA row : row.image_id # data.image_id) \o <<data>>

\* The loop of process_folder over the listed files.
RECURSIVE process_folder(_, _)
process_folder(rows, files) ==
    IF files = << >> THEN rows
    ELSE LET metadata == extract_metadata(Head(files))
         IN IF IsNone(metadata)
            THEN process_folder(rows, Tail(files))
            ELSE process_folder(
                    insert_image(rows,
                        [image_id |-> Head(files).filename,
                         lat |-> Val(metadata).lat,
                         lon |-> Val(metadata).lon,
                         timestamp |-> Val(metadata).timestamp]),
                    Tail(files))

\* os.listdir: the files of the folder in an arbitrary order.
ListDir(folder) ==
    {files \in [1..Cardinality(folder) -> folder] :
        \A i, j \in 1..Cardinality(folder) : i # j => files[i] # files[j]}

\* The variables of the pipeline that the handler itself leaves alone.
stage_vars ==
    <<points_file, clusters_file, m2_exit, m3_exit, parsed_points, segments,
      intelligence, m4_exit, exposure, first_run>>

\* database.init_db, which no script calls: run by hand while no request
\* is being handled.
init_db ==
    /\ ~db.table
    /\ \A r \in Requests : pc[r] \in {"idle", "done"}
    /\ db' = [file |-> TRUE, table |-> TRUE, rows |-> db.rows]
    /\ UNCHANGED <<output_data, stage_vars, images, dashboard, pc, upload,
                   response, started, extracted, rendered>>

\* track, step 1: the files of the upload folder are removed.
ClearImages(r, files) ==
    /\ pc[r] = "idle"
    /\ upload' = [upload EXCEPT ![r] = files]
    /\ images' = {}
    /\ pc' = [pc EXCEPT ![r] = "save"]
    /\ UNCHANGED <<output_data, stage_vars, db, dashboard, response, started,
                   extracted, rendered>>

\* A request that arrives after the requests before it have been answered.
Receive(r) ==
    /\ \A q \in Requests : q < r => pc[q] = "done"
    /\ \E files \in Uploads[r] : ClearImages(r, files)

\* A request that arrives at any time: the development server handles
\* each request in a thread of its own and track takes no lock.
ReceiveOverlapping(r) ==
    \E files \in OverlapUploads[r] : ClearImages(r, files)

\* track, step 2: the uploaded files are saved under their names.
SaveImages(r) ==
    /\ pc[r] = "save"
    /\ LET saved == {upload[r][i] : i \in 1..Len(upload[r])}
       IN images' = {old \in images :
                        \A new \in saved : new.filename # old.filename}
                    \cup saved
    /\ pc' = [pc EXCEPT ![r] = "clear_db"]
    /\ UNCHANGED <<output_data, stage_vars, db, dashboard, upload, response,
                   started, extracted, rendered>>

\* track: DELETE FROM images if metadata.db exists; sqlite raises
\* OperationalError when the file has no such table.
ClearDatabase(r) ==
    /\ pc[r] = "clear_db"
    /\ IF ~db.file
       THEN /\ pc' = [pc EXCEPT ![r] = "member1"]
            /\ UNCHANGED <<db, response>>
       ELSE IF db.table
       THEN /\ db' = [db EXCEPT !.rows = << >>]
            /\ pc' = [pc EXCEPT ![r] = "member1"]
            /\ UNCHANGED response
       ELSE /\ response' = [response EXCEPT ![r] = "500"]
            /\ pc' = [pc EXCEPT ![r] = "done"]
            /\ UNCHANGED db
    /\ UNCHANGED <<output_data, stage_vars, images, dashboard, upload,
                   started, extracted, rendered>>

\* member1/main.py run with check=True: process_folder and export_json.
\* Without the table its first statement on the database raises (connect
\* has then created an empty metadata.db) and track fails.
Member1(r) ==
    /\ pc[r] = "member1"
    /\ started' = [started EXCEPT ![r] = Append(@, "extraction")]
    /\ IF ~db.table
       THEN /\ db' = [db EXCEPT !.file = TRUE]
            /\ response' = [response EXCEPT ![r] = "500"]
            /\ pc' = [pc EXCEPT ![r] = "done"]
            /\ UNCHANGED output_data
       ELSE /\ \E files \in ListDir(images) :
                  db' = [db EXCEPT !.rows = process_folder(db.rows, files)]
            /\ output_data' = [exists |-> TRUE, content |-> db'.rows]
            /\ pc' = [pc EXCEPT ![r] = "check"]
            /\ UNCHANGED response
    /\ UNCHANGED <<stage_vars, images, dashboard, upload, extracted, rendered>>

\* Mutant: an empty list of observations is not looked for.
HasObservations_FileOnly(file) == file.exists

\* os.path.exists(output_json) and len(extracted) != 0
HasObservations(file) == file.exists /\ file.content # << >>

\* track: the error page with status 400 when output_data.json holds an
\* empty list or does not exist.
CheckExtracted(r) ==
    /\ pc[r] = "check"
    /\ extracted' = [extracted EXCEPT ![r] = Some(output_data)]
    /\ IF HasObservations(output_data)
       THEN /\ pc' = [pc EXCEPT ![r] = "member2"]
            /\ UNCHANGED response
       ELSE /\ response' = [response EXCEPT ![r] = "400"]
            /\ pc' = [pc EXCEPT ![r] = "done"]
    /\ UNCHANGED <<output_data, stage_vars, images, db, dashboard, upload,
                   started, rendered>>

\* member2/cluster.py run with check=True (exit() ends it with status 0).
Member2(r) ==
    /\ pc[r] = "member2"
    /\ started' = [started EXCEPT ![r] = Append(@, "clustering")]
    /\ LET data == output_data.content
       IN IF data = << >>
          THEN /\ m2_exit' = "exit_empty_input"
               /\ UNCHANGED <<points_file, clusters_file>>
          ELSE IF Len(valid_points(data)) = 0
          THEN /\ m2_exit' = "exit_no_valid"
               /\ UNCHANGED <<points_file, clusters_file>>
          ELSE LET out == ClusterOutputs(data)
               IN /\ points_file' = [exists |-> TRUE, content |-> out.points]
                  /\ clusters_file' = [exists |-> TRUE, content |-> out.clusters]
                  /\ m2_exit' = "complete"
    /\ pc' = [pc EXCEPT ![r] = "member3"]
    /\ UNCHANGED <<output_data, m3_exit, parsed_points, segments, intelligence,
                   m4_exit, exposure, first_run, images, db, dashboard,
                   upload, response, extracted, rendered>>

\* member3/member3_movement.py run with check=True: the script only
\* defines call_member3 and never calls it, so that nothing is read and no
\* intelligence.json is written.
Member3(r) ==
    /\ pc[r] = "member3"
    /\ started' = [started EXCEPT ![r] = Append(@, "movement_analysis")]
    /\ m3_exit' = "nothing_called"
    /\ pc' = [pc EXCEPT ![r] = "member4"]
    /\ UNCHANGED <<output_data, points_file, clusters_file, m2_exit,
                   parsed_points, segments, intelligence, m4_exit, exposure,
                   first_run, images, db, dashboard, upload, response,
                   extracted, rendered>>

\* load_intelligence: the report, or {} when there is no file.
load_intelligence ==
    IF intelligence.exists THEN Some(intelligence.content) ELSE None

\* load_clusters_meta: the cluster list, or {} when there is no file.
load_clusters_meta ==
    IF clusters_file.exists THEN Some(clusters_file.content) ELSE None

\* member4/member4_dashboard.py run with check=True, and the redirect to
\* /dashboard; an exception in the script makes track fail.
Member4(r) ==
    /\ pc[r] = "member4"
    /\ started' = [started EXCEPT ![r] = Append(@, "dashboard")]
    /\ LET loaded == load_points
           points == loaded.points
       IN IF ~loaded.found \/ SortedRaises(points) \/ BuildSummaryRaises(points)
          THEN /\ m4_exit' = "raised"
               /\ response' = [response EXCEPT ![r] = "500"]
               /\ UNCHANGED <<exposure, dashboard, rendered>>
          ELSE LET page == [points |-> points,
                            clusters_meta |-> load_clusters_meta,
                            exposure |-> compute_exposure(points,
                                                          build_summary(points)),
                            intel |-> load_intelligence]
               IN /\ exposure' = page.exposure
                  /\ dashboard' = [exists |-> TRUE, points |-> page.points,
                                   exposure |-> page.exposure,
                                   intel |-> page.intel]
                  /\ rendered' = [rendered EXCEPT ![r] = Some(page)]
                  /\ m4_exit' = "complete"
                  /\ response' = [response EXCEPT ![r] = "redirect"]
    /\ pc' = [pc EXCEPT ![r] = "done"]
    /\ UNCHANGED <<output_data, points_file, clusters_file, m2_exit, m3_exit,
                   parsed_points, segments, intelligence, first_run, images,
                   db, upload, extracted>>

\* The steps of track after the request has been received.
Handle(r) ==
    \/ SaveImages(r)
    \/ ClearDatabase(r)
    \/ Member1(r)
    \/ CheckExtracted(r)
    \/ Member2(r)
    \/ Member3(r)
    \/ Member4(r)

\* Requests that are sent one after the other.
NextTrack == init_db \/ \E r \in Requests : Receive(r) \/ Handle(r)

SpecTrack == Init /\ [][NextTrack]_vars

\* Requests whose handling overlaps.
NextOverlap == init_db \/ \E r \in Requests : ReceiveOverlapping(r) \/ Handle(r)

SpecOverlap == Init /\ [][NextOverlap]_vars

-----------------------------------------------------------------------------
(* Properties of the clustering stage *)

\* The distance test and the core test of the claims, stated on the
\* clustered observations themselves.
Near(p, q) == haversine(Val(p.lat), Val(q.lat)) <= EPS_M

CorePoint(pts, i) ==
    Cardinality({j \in 1..Len(pts) : Near(pts[i], pts[j])}) >= MIN_SAMPLES

NearCores(pts, i) == {j \in 1..Len(pts) : CorePoint(pts, j) /\ Near(pts[i], pts[j])}

BothPresent(o) == o.lat # None /\ o.lon # None

\* C1: whenever the clustering stage writes its output, the clustered
\* observations are exactly the input observations with both lat and lon
\* present: each once, unchanged, in input order, and no other.
C1_ExactlyValidInputs ==
    m2_exit = "complete" =>
        LET data == output_data.content
            out == points_file.content
            Pos(id) == CHOOSE i \in 1..Len(data) : data[i].image_id = id
        IN /\ \A i \in 1..Len(data) :
                Cardinality({k \in 1..Len(out) :
                                out[k].image_id = data[i].image_id})
                    = IF BothPresent(data[i]) THEN 1 ELSE 0
           /\ \A k \in 1..Len(out) :
                \E i \in 1..Len(data) :
                    /\ data[i].image_id = out[k].image_id
                    /\ data[i].lat = out[k].lat
                    /\ data[i].lon = out[k].lon
                    /\ data[i].timestamp = out[k].timestamp
           /\ \A k1, k2 \in 1..Len(out) :
                k1 < k2 => Pos(out[k1].image_id) < Pos(out[k2].image_id)

\* C1 witness: a run that kept at least two observations and dropped one
\* with a null latitude and one with a null longitude lying between them.
C1_Witness ==
    /\ m2_exit = "complete"
    /\ Len(points_file.content) >= 2
    /\ \E i, j, k, l \in 1..Len(output_data.content) :
          /\ i < j /\ j < k /\ k < l
          /\ BothPresent(output_data.content[i])
          /\ output_data.content[j].lat = None
          /\ output_data.content[k].lon = None
          /\ BothPresent(output_data.content[l])

\* C2: every cluster's visits is the number of clustered observations
\* carrying its id, and every non-noise cluster_id of a clustered
\* observation is the id of exactly one cluster of the list.
C2_VisitsMatchMembers ==
    clusters_file.exists =>
        LET out == points_file.content
            cl == clusters_file.content.clusters
        IN /\ \A k \in 1..Len(cl) :
                cl[k].visits =
                    Cardinality({i \in 1..Len(out) :
                                    out[i].cluster_id = cl[k].cluster_id})
           /\ \A i \in 1..Len(out) :
                out[i].cluster_id # -1 =>
                    Cardinality({k \in 1..Len(cl) :
                                    cl[k].cluster_id = out[i].cluster_id}) = 1

\* C2 witness: a run that found two clusters, one of them holding several
\* observations at one place.
C2_Witness ==
    /\ m2_exit = "complete"
    /\ Len(clusters_file.content.clusters) = 2
    /\ \E i, j \in 1..Len(points_file.content) :
          /\ i # j
          /\ points_file.content[i].lat = points_file.content[j].lat
          /\ points_file.content[i].cluster_id # -1

\* C3: two core points within eps of each other, exactly eps included,
\* carry the same cluster_id, and it is not -1.
C3_CoresWithinEpsShareCluster ==
    m2_exit = "complete" =>
        LET out == points_file.content
            cores == {i \in 1..Len(out) : CorePoint(out, i)}
        IN \A i, j \in cores :
              Near(out[i], out[j])
                  => /\ out[i].cluster_id = out[j].cluster_id
                     /\ out[i].cluster_id # -1

\* C3 witness: two core points exactly eps apart were clustered.
C3_Witness ==
    /\ m2_exit = "complete"
    /\ \E i, j \in 1..Len(points_file.content) :
          /\ CorePoint(points_file.content, i)
          /\ CorePoint(points_file.content, j)
          /\ haversine(Val(points_file.content[i].lat),
                       Val(points_file.content[j].lat)) = EPS_M

\* C4: an observation is noise exactly when no core point (itself
\* included) lies within eps of it, and otherwise it carries the
\* cluster_id of a core point within eps of it.
C4_NoiseIffUnreachable ==
    m2_exit = "complete" =>
        LET out == points_file.content
            cores == {i \in 1..Len(out) : CorePoint(out, i)}
        IN \A i \in 1..Len(out) :
              LET near == {j \in cores : Near(out[i], out[j])}
              IN /\ out[i].cluster_id = -1 <=> near = {}
                 /\ near # {} =>
                       \E j \in near : out[j].cluster_id = out[i].cluster_id

\* C4 witness: a run with a border point (not core, within eps of a core
\* point) and a noise point.
C4_Witness ==
    /\ m2_exit = "complete"
    /\ \E i, j \in 1..Len(points_file.content) :
          /\ ~CorePoint(points_file.content, i)
          /\ NearCores(points_file.content, i) # {}
          /\ points_file.content[i].cluster_id # -1
          /\ points_file.content[j].cluster_id = -1

\* C5: no cluster of the list has id -1, every observation the stage
\* clustered is kept in the output either as a member of a listed cluster
\* or as noise, and noise_points is the number of clustered observations
\* with cluster_id -1.
C5_NoiseKeptNotListed ==
    clusters_file.exists =>
        LET out == points_file.content
            cl == clusters_file.content.clusters
            noise == {i \in 1..Len(out) : out[i].cluster_id = -1}
        IN /\ \A k \in 1..Len(cl) : cl[k].cluster_id # -1
           /\ clusters_file.content.noise_points = Cardinality(noise)
           /\ Len(out) = Cardinality(noise)
                         + SumSeq([k \in 1..Len(cl) |-> cl[k].visits])
           /\ m2_exit = "complete" =>
                 Len(out) = Cardinality({i \in 1..Len(output_data.content) :
                                           BothPresent(output_data.content[i])})

\* C5 witness: a run that found a cluster and left noise points.
C5_Witness ==
    /\ m2_exit = "complete"
    /\ Len(clusters_file.content.clusters) >= 1
    /\ clusters_file.content.noise_points >= 1

\* The latitudes of the valid range, [-90, 90] degrees.
InRange(lat) == -QuarterMeridianM <= lat /\ lat <= QuarterMeridianM

\* The numbers clusters.json reports beside the cluster list.
ReportedNumbers == {"noise_points", "movement_radius_km"}

\* C6: a run over an input with no observation, or with none that has
\* both lat and lon, ends without error and leaves an empty cluster list
\* and an empty list of clustered observations for the next stage.
C6_EmptyInputEmptyOutputs ==
    m2_exit \in {"exit_empty_input", "exit_no_valid"} =>
        /\ points_file.content = << >>
        /\ clusters_file.content.clusters = << >>

\* C7: the stage reports how many observations it dropped: the number of
\* input observations is the number of clustered observations plus a
\* number clusters.json reports.
C7_DroppedCountReported ==
    m2_exit = "complete" =>
        \E key \in ReportedNumbers :
            Len(output_data.content)
                = Len(points_file.content) + clusters_file.content[key]

\* C8: no observation with a latitude out of [-90, 90] is among the
\* clustered observations or at an end of a movement segment.
C8_OutOfRangeExcluded ==
    /\ m2_exit = "complete" =>
          \A i \in 1..Len(points_file.content) :
              InRange(Val(points_file.content[i].lat))
    /\ m3_exit = "complete" =>
          \A i \in 1..Len(segments) :
              /\ InRange(Val(segments[i].from_point.lat))
              /\ InRange(Val(segments[i].to_point.lat))

-----------------------------------------------------------------------------
(* Properties of the movement stage *)

\* C9: whenever compute_point_to_point_movements returns, it returns n - 1
\* segments for n >= 2 points and none for n < 2, segment i goes from the
\* i-th to the (i+1)-th point of the sorted sequence, and each segment
\* ends where the next one starts.
C9_SegmentCountAndChain ==
    m3_exit = "complete" =>
        LET n == Len(points_file.content)
        IN /\ Len(parsed_points) = n
           /\ Len(segments) = IF n >= 2 THEN n - 1 ELSE 0
           /\ \A i \in 1..Len(segments) :
                /\ segments[i].from_point.filename = parsed_points[i].filename
                /\ segments[i].to_point.filename = parsed_points[i + 1].filename
           /\ \A i \in 1..(Len(segments) - 1) :
                segments[i].to_point = segments[i + 1].from_point

\* C9 witness: a run over at least three points whose sort changed their
\* order.
C9_Witness ==
    /\ m3_exit = "complete"
    /\ Len(segments) >= 2
    /\ \E i \in 1..Len(segments) :
          segments[i].from_point.filename > segments[i].to_point.filename

\* The place of a sorted point in the input of the sort.
InputIndex(x) ==
    CHOOSE i \in 1..Len(points_file.content) :
        points_file.content[i].image_id = x.filename

-----------------------------------------------------------------------------
(* Properties of the segments' speed and behaviour *)

\* C11: a segment whose reported time delta is null or not positive
\* reports a null speed and the behaviour "unknown"; a reported time delta
\* that is not null is never negative.
C11_NoSpeedWithoutPositiveDelta ==
    m3_exit = "complete" =>
        \A i \in 1..Len(segments) :
            LET seg == segments[i]
            IN /\ (seg.time_delta_seconds = None
                        \/ Val(seg.time_delta_seconds) <= 0)
                    => seg.speed_kmh = None /\ seg.behaviour = "unknown"
               /\ seg.time_delta_seconds # None
                    => Val(seg.time_delta_seconds) >= 0

\* The category whose half-open range [lower, upper) holds a speed given
\* in hundredths of km/h.
CategoryOfHundredths(s) ==
    IF s < 100 * SPEED_STATIONARY THEN "stationary"
    ELSE IF s < 100 * SPEED_WALKING THEN "walking"
    ELSE IF s < 100 * SPEED_DRIVING THEN "driving"
    ELSE "anomaly/flight"

\* C12: the behaviour of every segment with a reported speed is the
\* category whose half-open range holds that reported speed.
C12_BehaviourOfReportedSpeed ==
    m3_exit = "complete" =>
        \A i \in 1..Len(segments) :
            segments[i].speed_kmh # None =>
                segments[i].behaviour =
                    CategoryOfHundredths(Val(segments[i].speed_kmh))
-----------------------------------------------------------------------------
(* Properties of the dwell records *)

\* The parsed instants of the observations of cluster cid, in ascending
\* order (parsed_points is in ascending order of timestamp).
StampedOf(cid) ==
    LET mine(p) == p.cluster_id = cid /\ p.timestamp # None
        pts == SelectSeq(parsed_points, mine)
    IN [k \in 1..Len(pts) |-> Val(pts[k].timestamp).t]

\* The consecutive pairs of ts whose gap is strictly greater than gap.
LongGaps(ts, gap) == {k \in 1..(Len(ts) - 1) : ts[k + 1] - ts[k] > gap}

DwellRecords == intelligence.content.dwell_times

\* C13: the visit_count of every dwell record is 1 plus the number of
\* consecutive pairs of the cluster's ascending timestamps whose gap is
\* strictly greater than 3600 seconds.
C13_VisitCountCountsLongGaps ==
    m3_exit = "complete" =>
        \A k \in 1..Len(DwellRecords) :
            DwellRecords[k].visit_count =
                1 + Cardinality(LongGaps(StampedOf(DwellRecords[k].cluster_id),
                                         VISIT_GAP))

\* A cluster seen at gaps of exactly 3600 s and of 3600.01 s: two visits.
C13_Witness ==
    /\ m3_exit = "complete"
    /\ \E k \in 1..Len(DwellRecords) :
          LET ts == StampedOf(DwellRecords[k].cluster_id)
          IN /\ \E i \in 1..(Len(ts) - 1) : ts[i + 1] - ts[i] = VISIT_GAP
             /\ \E i \in 1..(Len(ts) - 1) : ts[i + 1] - ts[i] = VISIT_GAP + 1
             /\ DwellRecords[k].visit_count = 2

Thresholds == {0, 1, VISIT_GAP - 1, VISIT_GAP, VISIT_GAP + 1, 2 * VISIT_GAP + 1}

\* visit_count of analyse_dwell_times for the timestamps ts, were the
\* threshold gap.
VisitCountWith(ts, gap) == DwellRecord(0, ts, gap).visit_count

\* C15: for the observations of any run, the visit_count a cluster gets
\* with a smaller visit-gap threshold is at least the one it gets with a
\* larger threshold; the reported one is that of 3600 s.
C15_VisitCountMonotoneInThreshold ==
    m3_exit = "complete" =>
        \A k \in 1..Len(DwellRecords) :
            LET ts == ClusterTimes(parsed_points, DwellRecords[k].cluster_id)
            IN /\ DwellRecords[k].visit_count = VisitCountWith(ts, VISIT_GAP)
               /\ \A g1, g2 \in Thresholds :
                    g1 <= g2 => VisitCountWith(ts, g1) >= VisitCountWith(ts, g2)

\* A cluster whose visit_count differs between two thresholds.
C15_Witness ==
    /\ m3_exit = "complete"
    /\ \E k \in 1..Len(DwellRecords) :
          LET ts == ClusterTimes(parsed_points, DwellRecords[k].cluster_id)
          IN /\ VisitCountWith(ts, VISIT_GAP - 1) = 3
             /\ VisitCountWith(ts, VISIT_GAP) = 2
             /\ VisitCountWith(ts, VISIT_GAP + 1) = 1
-----------------------------------------------------------------------------
(* Properties of the corridors and of the cluster distances *)

Corridors == intelligence.content.movement_corridors

\* The segments that go from cluster a to cluster b.
Trips(a, b) ==
    {i \in 1..Len(segments) :
        /\ segments[i].from_point.cluster_id = a
        /\ segments[i].to_point.cluster_id = b}

\* C16: for every directed pair (a, b) of cluster ids there is a corridor
\* record "a -> b" exactly when some segment goes from a to b with a # b
\* and neither being -1; its trip_count is the number of those segments;
\* the records are in order of non-increasing trip_count.
C16_CorridorsCountTrips ==
    m3_exit = "complete" =>
        LET ids == {parsed_points[i].cluster_id : i \in 1..Len(parsed_points)}
                       \cup {-1}
            RecordsOf(a, b) ==
                {k \in 1..Len(Corridors) : Corridors[k].corridor = <<a, b>>}
        IN /\ \A a, b \in ids :
                IF a # b /\ a # -1 /\ b # -1 /\ Trips(a, b) # {}
                THEN /\ Cardinality(RecordsOf(a, b)) = 1
                     /\ \A k \in RecordsOf(a, b) :
                            Corridors[k].trip_count = Cardinality(Trips(a, b))
                ELSE RecordsOf(a, b) = {}
           /\ \A k \in 1..Len(Corridors) :
                /\ Corridors[k].corridor[1] \in ids
                /\ Corridors[k].corridor[2] \in ids
           /\ \A k \in 1..(Len(Corridors) - 1) :
                Corridors[k].trip_count >= Corridors[k + 1].trip_count

\* Two corridors, the one met later in the segments having more trips and
\* standing first; a segment to a noise observation is in no corridor.
C16_Witness ==
    /\ m3_exit = "complete"
    /\ Len(Corridors) = 2
    /\ Corridors[1].trip_count > Corridors[2].trip_count
    /\ \E i \in Trips(Corridors[2].corridor[1], Corridors[2].corridor[2]) :
          \A j \in Trips(Corridors[1].corridor[1], Corridors[1].corridor[2]) :
              i < j
    /\ \E i \in 1..Len(segments) : segments[i].to_point.cluster_id = -1
Distances == intelligence.content.cluster_distances

\* C17: for the k clusters of clusters.json, compute_cluster_distances
\* returns k(k-1)/2 records, one for each unordered pair of different
\* clusters and none pairing a cluster with itself, in order of
\* non-decreasing distance_km.
C17_OneRecordPerClusterPair ==
    m3_exit = "complete" =>
        LET clusters == clusters_file.content.clusters
            k == Len(clusters)
            ids == {clusters[i].cluster_id : i \in 1..k}
            RecordsOf(a, b) ==
                {r \in 1..Len(Distances) :
                    {Distances[r].cluster_a, Distances[r].cluster_b} = {a, b}}
        IN /\ 2 * Len(Distances) = k * (k - 1)
           /\ \A a, b \in ids : a # b => Cardinality(RecordsOf(a, b)) = 1
           /\ \A r \in 1..Len(Distances) :
                /\ Distances[r].cluster_a # Distances[r].cluster_b
                /\ Distances[r].cluster_a \in ids
                /\ Distances[r].cluster_b \in ids
           /\ \A r \in 1..(Len(Distances) - 1) :
                Distances[r].distance_km <= Distances[r + 1].distance_km

\* Four clusters and six records, the pair the loop meets first being the
\* farthest apart and standing last.
C17_Witness ==
    /\ m3_exit = "complete"
    /\ Len(clusters_file.content.clusters) = 4
    /\ Len(Distances) = 6
    /\ Distances[1].distance_km < Distances[6].distance_km
    /\ Distances[6].cluster_a = clusters_file.content.clusters[1].cluster_id
    /\ Distances[6].cluster_b = clusters_file.content.clusters[2].cluster_id

-----------------------------------------------------------------------------
(* Properties of the time-of-day profile *)

Profile == intelligence.content.time_of_day_profile

\* The hours of the day of each bucket.
HoursOf(bucket) ==
    CASE bucket = "morning" -> 5..11
      [] bucket = "afternoon" -> 12..16
      [] bucket = "evening" -> 17..20
      [] bucket = "night" -> (21..23) \cup (0..4)

\* The observations whose timestamp text is a timestamp.
Timestamped ==
    {i \in 1..Len(points_file.content) :
        points_file.content[i].timestamp.fmt \notin {"null", "garbage"}}

\* The hour of the day written in the timestamp text of observation i.
HourWritten(i) == (points_file.content[i].timestamp.t \div 360000) % 24

\* C18: every observation with a parsed timestamp is counted in the one
\* bucket of its hour (morning 5..11, afternoon 12..16, evening 17..20,
\* night 21..23 and 0..4), an observation without one in none, and the
\* four counts sum to the number of timestamped observations.
C18_BucketsPartitionTimestamped ==
    m3_exit = "complete" =>
        /\ \A b \in BucketNames :
              Profile[b].count =
                  Cardinality({i \in Timestamped : HourWritten(i) \in HoursOf(b)})
        /\ Profile["morning"].count + Profile["afternoon"].count
              + Profile["evening"].count + Profile["night"].count
                  = Cardinality(Timestamped)

\* 11:59:59 in the morning, 12:00:00 in the afternoon, and an observation
\* without a timestamp in neither.
C18_Witness ==
    /\ m3_exit = "complete"
    /\ Profile["morning"].count = 1
    /\ Profile["afternoon"].count = 1
    /\ \E i, j \in Timestamped :
          /\ points_file.content[i].timestamp.t = 12 * 360000 - 100
          /\ points_file.content[j].timestamp.t = 12 * 360000
    /\ Len(points_file.content) > Cardinality(Timestamped)
-----------------------------------------------------------------------------
(* Properties of the exposure score *)

\* The points main loads: those of member2, else those of member1.
DashboardPoints == load_points.points

NoisePoints ==
    {i \in 1..Len(DashboardPoints) : DashboardPoints[i].cluster_id = -1}

DistinctClusters ==
    {DashboardPoints[i].cluster_id : i \in 1..Len(DashboardPoints)} \ {-1}

\* 1 when the condition holds, else 0.
Bracket(cond) == IF cond THEN 1 ELSE 0

\* C19: for a batch that is not empty the score is
\* min(10, max(0, 3 + 2[total >= 10] + 2[clusters >= 2] + [clusters >= 3]
\* + [no noise])), within 0..10, and the label is "High" from 7, "Medium"
\* from 4 to 6 and "Low" below.
C19_ExposureScoreFormula ==
    (m4_exit = "complete" /\ DashboardPoints # << >>) =>
        LET sum == 3 + 2 * Bracket(Len(DashboardPoints) >= 10)
                     + 2 * Bracket(Cardinality(DistinctClusters) >= 2)
                     + Bracket(Cardinality(DistinctClusters) >= 3)
                     + Bracket(NoisePoints = {})
            lower == IF sum < 0 THEN 0 ELSE sum
            expected == IF lower > 10 THEN 10 ELSE lower
        IN /\ exposure.score = expected
           /\ exposure.score \in 0..10
           /\ exposure.score >= 7 => exposure.label = "High"
           /\ (4 <= exposure.score /\ exposure.score < 7)
                => exposure.label = "Medium"
           /\ exposure.score < 4 => exposure.label = "Low"

\* Ten observations, three clusters and one noise observation: 8, "High".
C19_Witness ==
    /\ m4_exit = "complete"
    /\ Len(DashboardPoints) = 10
    /\ Cardinality(DistinctClusters) = 3
    /\ Cardinality(NoisePoints) = 1
    /\ exposure = [score |-> 8, label |-> "High"]

\* C20: with the number of observations and the number of noise
\* observations of a run held fixed, the score for more distinct clusters
\* is at least the score for fewer; the score of the run is the one for
\* its own number of clusters.
C20_ScoreMonotoneInClusters ==
    (m4_exit = "complete" /\ DashboardPoints # << >>) =>
        LET total == Len(DashboardPoints)
            noise == Cardinality(NoisePoints)
        IN /\ exposure.score = Score(total, Cardinality(DistinctClusters), noise)
           /\ \A fewer, more \in 0..total :
                fewer <= more => Score(total, fewer, noise) <= Score(total, more, noise)

\* A run with three clusters whose score is above the one for two
\* clusters, itself above the one for a single cluster.
C20_Witness ==
    /\ m4_exit = "complete"
    /\ Cardinality(DistinctClusters) = 3
    /\ LET total == Len(DashboardPoints)
           noise == Cardinality(NoisePoints)
       IN /\ Score(total, 2, noise) < exposure.score
          /\ Score(total, 1, noise) < Score(total, 2, noise)

-----------------------------------------------------------------------------
(* Properties of the stages on an empty list of observations *)

Summary == intelligence.content.summary

\* C21: for an empty list of observations the movement stage does not
\* raise, returns no segment and reports a summary with zero points, zero
\* segments, zero clusters and zero total distance; the dashboard does not
\* raise either, counts zero locations and gives the exposure score 0 with
\* the label "Low".
C21_EmptyListZeroSummary ==
    (m2_exit = "given" /\ points_file.content = << >>) =>
        /\ m3_exit \in {"not_run", "complete"}
        /\ m3_exit = "complete" =>
              /\ segments = << >>
              /\ intelligence.exists
              /\ Summary.total_points = 0
              /\ Summary.total_segments = 0
              /\ Summary.total_clusters = 0
              /\ Summary.total_distance_km = 0
        /\ m4_exit \in {"not_run", "complete"}
        /\ m4_exit = "complete" =>
              /\ build_summary(DashboardPoints).total_locations = 0
              /\ exposure = [score |-> 0, label |-> "Low"]

\* Both stages have run on the empty list.
C21_Witness ==
    /\ m2_exit = "given"
    /\ points_file.exists /\ points_file.content = << >>
    /\ clusters_file.content.clusters = << >>
    /\ m3_exit = "complete"
    /\ m4_exit = "complete"

-----------------------------------------------------------------------------
(* Properties of the movement stage on mixed timestamp texts *)

\* C23: the movement stage never raises on observations that have
\* coordinates, whatever their timestamp texts are (absent, no timestamp,
\* or written in any of the accepted formats, in any mixture), and every
\* parsed timestamp is what the first matching format gives, None when no
\* format matches.
C23_SegmentationNeverRaises ==
    /\ m3_exit # "raised"
    /\ m3_exit = "complete" =>
          \A i \in 1..Len(parsed_points) :
              LET text == points_file.content[InputIndex(parsed_points[i])].timestamp
                  matching == {k \in 1..Len(formats) : formats[k] = text.fmt}
              IN IF matching = {}
                 THEN parsed_points[i].timestamp = None
                 ELSE parsed_points[i].timestamp
                        = Some([t |-> text.t, aware |-> text.tz])

-----------------------------------------------------------------------------
(* Properties of the sizes of the clusters *)

\* C29: every cluster of the cluster list has at least MIN_SAMPLES member
\* observations; an observation that is not a core point is never within
\* eps of core points of two different clusters.
C29_ClustersHaveMinSamples ==
    m2_exit = "complete" =>
        LET out == points_file.content
            cl == clusters_file.content.clusters
            cores == {i \in 1..Len(out) : CorePoint(out, i)}
        IN /\ \A k \in 1..Len(cl) :
                /\ cl[k].visits >= MIN_SAMPLES
                /\ Cardinality({i \in 1..Len(out) :
                                  out[i].cluster_id = cl[k].cluster_id})
                      >= MIN_SAMPLES
           /\ \A i \in (1..Len(out)) \ cores :
                \A j1, j2 \in cores :
                    (Near(out[i], out[j1]) /\ Near(out[i], out[j2]))
                        => out[j1].cluster_id = out[j2].cluster_id

\* Two clusters, one of exactly MIN_SAMPLES observations of which two are
\* border observations.
C29_Witness ==
    /\ m2_exit = "complete"
    /\ Len(clusters_file.content.clusters) = 2
    /\ \E k \in 1..Len(clusters_file.content.clusters) :
          LET members == {i \in 1..Len(points_file.content) :
                            points_file.content[i].cluster_id
                                = clusters_file.content.clusters[k].cluster_id}
          IN /\ Cardinality(members) = MIN_SAMPLES
             /\ Cardinality({i \in members :
                                ~CorePoint(points_file.content, i)}) = 2

-----------------------------------------------------------------------------
(* Properties of the dwell totals *)

\* The time, in hundredths of a second, from the first to the last of the
\* ascending instants ts less every gap between consecutive instants that
\* is greater than 3600 s.
SpanLessLongGaps(ts) ==
    (ts[Len(ts)] - ts[1])
        - SumSeq([k \in 1..(Len(ts) - 1) |->
                    IF k \in LongGaps(ts, VISIT_GAP) THEN ts[k + 1] - ts[k] ELSE 0])

\* C30 as stated: total_dwell_seconds of every dwell record equals
\* last_seen - first_seen less the gaps greater than 3600 s, hence lies
\* between 0 and last_seen - first_seen; visit_count is at most
\* point_count; a cluster with one timestamped observation has
\* total_dwell_seconds 0 and visit_count 1.
C30_DwellIsSpanLessLongGaps ==
    m3_exit = "complete" =>
        \A k \in 1..Len(DwellRecords) :
            LET d == DwellRecords[k]
                ts == StampedOf(d.cluster_id)
            IN /\ 10 * d.total_dwell_seconds = SpanLessLongGaps(ts)
               /\ d.first_seen = ts[1] /\ d.last_seen = ts[Len(ts)]
               /\ 0 <= d.total_dwell_seconds
               /\ 10 * d.total_dwell_seconds <= d.last_seen - d.first_seen
               /\ d.visit_count <= d.point_count
               /\ d.point_count = 1 =>
                     d.total_dwell_seconds = 0 /\ d.visit_count = 1

\* C30 amended: total_dwell_seconds is that time rounded to a tenth of a
\* second, so it is within 0.05 s of it and between 0 and last_seen -
\* first_seen + 0.05 s; the time itself lies between 0 and last_seen -
\* first_seen; visit_count is at most point_count; a cluster with one
\* timestamped observation has total_dwell_seconds 0 and visit_count 1.
C30_DwellIsRoundedSpan ==
    m3_exit = "complete" =>
        \A k \in 1..Len(DwellRecords) :
            LET d == DwellRecords[k]
                ts == StampedOf(d.cluster_id)
                exact == SpanLessLongGaps(ts)
            IN /\ Abs(10 * d.total_dwell_seconds - exact) <= 5
               /\ d.first_seen = ts[1] /\ d.last_seen = ts[Len(ts)]
               /\ 0 <= exact /\ exact <= d.last_seen - d.first_seen
               /\ 0 <= d.total_dwell_seconds
               /\ 10 * d.total_dwell_seconds <= d.last_seen - d.first_seen + 5
               /\ d.visit_count <= d.point_count
               /\ d.point_count = 1 =>
                     d.total_dwell_seconds = 0 /\ d.visit_count = 1

\* A cluster seen at 0:00:00, 0.06 s later and two hours later: the long
\* gap is left out, and the 0.06 s that remain are reported as 0.1 s.
C30_Witness ==
    /\ m3_exit = "complete"
    /\ \E k \in 1..Len(DwellRecords) :
          LET ts == StampedOf(DwellRecords[k].cluster_id)
          IN /\ LongGaps(ts, VISIT_GAP) # {}
             /\ SpanLessLongGaps(ts) = 6
             /\ DwellRecords[k].total_dwell_seconds = 1
             /\ DwellRecords[k].visit_count = 2

-----------------------------------------------------------------------------
(* Properties of a second run on the same batch *)

-----------------------------------------------------------------------------
(* Properties of the /track handler *)

\* The stages of a request that ends with the redirect.
AllStages == <<"extraction", "clustering", "movement_analysis", "dashboard">>

\* The photos of a request that carry GPS tags.
GpsPhotos(r) ==
    {upload[r][i] : i \in {k \in 1..Len(upload[r]) : ~IsNone(upload[r][k].gps)}}

\* C22: when the extraction of a request has run to its end, a photo of
\* the request that has GPS tags and either no date or a date that is in
\* no known format does not stop the batch: every stage runs, the request
\* ends with the redirect, and the dashboard is built from points among
\* which that photo's observation is, without a timestamp.
C22_UndatedObservationKept ==
    \A r \in Requests :
        (pc[r] = "done" /\ ~IsNone(extracted[r])) =>
            \A photo \in GpsPhotos(r) :
                photo.timestamp.fmt \in {"null", "garbage"} =>
                    /\ response[r] = "redirect"
                    /\ started[r] = AllStages
                    /\ \E k \in 1..Len(Val(rendered[r]).points) :
                          LET point == Val(rendered[r]).points[k]
                          IN /\ point.image_id = photo.filename
                             /\ point.lat = photo.gps
                             /\ point.timestamp = NoTimestamp

\* C25: of two requests whose handling overlaps, each gets a dashboard
\* built from its own upload only: every point of it is the observation
\* of one of the request's photos.  (A stage is one step here, so that no
\* two stages act at once; what the claim concludes from it is stated.)
C25_DashboardOfOwnUploadOnly ==
    \A r \in Requests :
        response[r] = "redirect" =>
            \A k \in 1..Len(Val(rendered[r]).points) :
                \E photo \in GpsPhotos(r) :
                    /\ Val(rendered[r]).points[k].image_id = photo.filename
                    /\ Val(rendered[r]).points[k].lat = photo.gps

\* The report run_pipeline writes for clustered observations and their
\* cluster list.
ReportOf(points, clusters_meta) ==
    LET pp == SortPoints(<< >>, ParsePoints(points))
    IN Analyses(LoadClusters(clusters_meta), pp, MakeSegments(pp))

\* C26: a request that ends with the redirect has started extraction,
\* clustering, movement analysis and dashboard generation in this order,
\* each after the one before it had ended, and the report its dashboard
\* was built from is the one the movement analysis wrote for the
\* request's clustered observations.
C26_StagesInOrderReportFresh ==
    \A r \in Requests :
        response[r] = "redirect" =>
            /\ started[r] = AllStages
            /\ ~IsNone(Val(rendered[r]).intel)
            /\ ~IsNone(Val(rendered[r]).clusters_meta)
            /\ Val(Val(rendered[r]).intel) =
                   ReportOf(Val(rendered[r]).points,
                            Val(Val(rendered[r]).clusters_meta))

C28_OneRecordPerGpsPhoto ==
    \A r \in Requests :
        ~IsNone(extracted[r]) =>
            LET list == Val(extracted[r]).content
            IN /\ Val(extracted[r]).exists
               /\ \A i, j \in 1..Len(list) :
                     i # j => list[i].image_id # list[j].image_id
               /\ \A photo \in GpsPhotos(r) :
                     \E i \in 1..Len(list) :
                         /\ list[i].image_id = photo.filename
                         /\ list[i].lat = photo.gps
               /\ \A i \in 1..Len(list) :
                     \E photo \in GpsPhotos(r) :
                         /\ list[i].image_id = photo.filename
                         /\ list[i].lat = photo.gps

====
